---- MODULE Spec2Model ----
(***************************************************************************)
(* Pixel-Hydrogen storefront: the collection page's chunk paginator        *)
(* (routes/collections.$handle.jsx) and the product page's image carousel  *)
(* (routes/products.$handle.jsx).                                          *)
(*                                                                         *)
(* Conventions.  A JavaScript value that may be null/undefined is a        *)
(* sequence of length at most one: NULL is the absent value and Some(x)    *)
(* the present one.  A string that the code parses or prints (the `page`   *)
(* query parameter) is a sequence of one-character strings.  A cursor is   *)
(* the opaque token of a product of the collection; the model names it by  *)
(* the product's position in the collection's API order.                   *)
(***************************************************************************)
EXTENDS Integers, Sequences, FiniteSets, TLC

VARIABLES
    catalogSize,   \* number of products of the collection held by the store
    search,        \* location.search: the page, cursor and direction parameters
    collection,    \* useLoaderData(): the chunk returned by the loader
    view,          \* what Collection() derived on its last render
    baseImages,    \* product.images.nodes
    variantImage,  \* selectedVariant.image
    images,        \* the memoised image list of Product()
    carousel,      \* Product()'s state, its pending timers and preloads
    firstShown,    \* history: the image displayed at mount is still displayed
    following,     \* history: a switchTo call made at rest is being followed
    failed,        \* history: the URL whose preload failed and was not asked again
    last,          \* history: the last event, where the properties tell it apart
    stored,        \* localStorage: the value under RECENTLY_VIEWED_KEY
    recentlyViewed,\* Product()'s recentlyViewed state
    product,       \* the product on view, as the recently viewed effect sees it
    views          \* history: the number of product views so far

collectionVars == <<catalogSize, search, collection, view>>

productVars ==
    <<baseImages, variantImage, images, carousel, firstShown, following, failed>>

recentVars == <<stored, recentlyViewed, product, views>>

vars == <<collectionVars, productVars, last, recentVars>>

----------------------------------------------------------------------------
(* Bounds and program constants *)

MaxCatalog == 405

MaxBaseImages == 2

PAGE_SIZE == 50

PAGES_PER_CHUNK == 4

----------------------------------------------------------------------------
(* JavaScript values *)

NULL == <<>>

Some(x) == <<x>>

\* a string or null used as a condition: null and "" are falsy
Truthy(v) == v # NULL /\ v[1] # ""

\* a cursor or null used as a condition: a cursor token is never empty
HasCursor(c) == c # NULL

Min(a, b) == IF a < b THEN a ELSE b

Max(a, b) == IF a > b THEN a ELSE b

\* Math.ceil(a / b) for a >= 0, b > 0
Ceil(a, b) == (a + b - 1) \div b

Digits == {"0", "1", "2", "3", "4", "5", "6", "7", "8", "9"}

DigitValue(c) ==
    CASE c = "0" -> 0 [] c = "1" -> 1 [] c = "2" -> 2 [] c = "3" -> 3
      [] c = "4" -> 4 [] c = "5" -> 5 [] c = "6" -> 6 [] c = "7" -> 7
      [] c = "8" -> 8 [] c = "9" -> 9

RECURSIVE DigitsValue(_)
DigitsValue(s) ==
    IF s = <<>> THEN 0
    ELSE DigitsValue(SubSeq(s, 1, Len(s) - 1)) * 10 + DigitValue(s[Len(s)])

IsDigits(s) == Len(s) > 0 /\ \A i \in 1..Len(s) : s[i] \in Digits

\* Number(string): NULL stands for NaN.  "" is 0, an optionally signed run of
\* decimal digits is its value, any other text is NaN.
Number(s) ==
    IF s = <<>> THEN Some(0)
    ELSE IF IsDigits(s) THEN Some(DigitsValue(s))
    ELSE IF s[1] = "-" /\ IsDigits(Tail(s)) THEN Some(0 - DigitsValue(Tail(s)))
    ELSE IF s[1] = "+" /\ IsDigits(Tail(s)) THEN Some(DigitsValue(Tail(s)))
    ELSE NULL

DigitChar(d) ==
    CASE d = 0 -> "0" [] d = 1 -> "1" [] d = 2 -> "2" [] d = 3 -> "3"
      [] d = 4 -> "4" [] d = 5 -> "5" [] d = 6 -> "6" [] d = 7 -> "7"
      [] d = 8 -> "8" [] d = 9 -> "9"

RECURSIVE NatString(_)
NatString(n) ==
    IF n < 10 THEN <<DigitChar(n)>>
    ELSE Append(NatString(n \div 10), DigitChar(n % 10))

\* String(number) of an integer
String(n) == IF n < 0 THEN <<"-">> \o NatString(0 - n) ELSE NatString(n)

----------------------------------------------------------------------------
(* The loader: getPaginationVariables and the products connection *)

\* getPaginationVariables(request, {pageBy}): direction "previous" pages
\* backwards from the cursor, anything else forwards.
getPaginationVariables(params, pageBy) ==
    IF params.direction = Some("previous")
    THEN [first |-> NULL, last |-> Some(pageBy),
          startCursor |-> params.cursor, endCursor |-> NULL]
    ELSE [first |-> Some(pageBy), last |-> NULL,
          startCursor |-> NULL, endCursor |-> params.cursor]

\* products(first, last, before: $startCursor, after: $endCursor) over a
\* collection of `size` products in API order 1..size; product k has cursor k.
ProductsConnection(size, variables) ==
    LET lo == IF variables.first # NULL
              THEN (IF variables.endCursor = NULL THEN 1
                    ELSE variables.endCursor[1] + 1)
              ELSE (IF variables.startCursor = NULL
                    THEN Max(1, size - variables.last[1] + 1)
                    ELSE Max(1, variables.startCursor[1] - variables.last[1]))
        hi == IF variables.first # NULL
              THEN Min(size, lo + variables.first[1] - 1)
              ELSE (IF variables.startCursor = NULL THEN size
                    ELSE variables.startCursor[1] - 1)
        n  == IF hi >= lo THEN hi - lo + 1 ELSE 0
        after  == IF n > 0 THEN hi ELSE
                  IF variables.first # NULL THEN lo - 1 ELSE hi
    IN  [nodes |-> [i \in 1..n |-> lo + i - 1],
         pageInfo |->
           [hasNextPage     |-> after < size,
            hasPreviousPage |-> IF n > 0 THEN lo > 1 ELSE after >= 1,
            startCursor     |-> IF n > 0 THEN Some(lo) ELSE NULL,
            endCursor       |-> IF n > 0 THEN Some(hi) ELSE NULL]]

loadCriticalData(size, params) ==
    ProductsConnection(size,
        getPaginationVariables(params, PAGE_SIZE * PAGES_PER_CHUNK))

----------------------------------------------------------------------------
(* Collection(): the derivation done on every render *)

requestedPage(params) ==
    LET n == Number(IF params.page = NULL \/ params.page[1] = <<>>
                    THEN <<"1">> ELSE params.page[1])
    IN  IF n = NULL \/ n[1] = 0 THEN 1 ELSE n[1]

totalPages(nodes) == Max(1, Ceil(Len(nodes), PAGE_SIZE))

\* mutant: the lower clamp without the upper one
currentPage_NoUpperClamp(params, nodes) == Max(1, requestedPage(params))

currentPage(params, nodes) ==
    Min(Max(1, requestedPage(params)), totalPages(nodes))

\* Array.prototype.slice(start, end) with 0-based, in-range-clamped indices
Slice(s, start, end) ==
    LET a == Min(Max(start, 0), Len(s))
        b == Min(Max(end, 0), Len(s))
    IN  IF b > a THEN SubSeq(s, a + 1, b) ELSE <<>>

\* mutant: the slice runs one item into the following page
visibleNodes_LongSlice(nodes, page) ==
    LET startIndex == (page - 1) * PAGE_SIZE
        endIndex   == startIndex + PAGE_SIZE + 1
    IN  Slice(nodes, startIndex, endIndex)

\* mutant: the slice starts at the 1-based page's end
visibleNodes_ZeroBasedPage(nodes, page) ==
    LET startIndex == page * PAGE_SIZE
        endIndex   == startIndex + PAGE_SIZE
    IN  Slice(nodes, startIndex, endIndex)

visibleNodes(nodes, page) ==
    LET startIndex == (page - 1) * PAGE_SIZE
        endIndex   == startIndex + PAGE_SIZE
    IN  Slice(nodes, startIndex, endIndex)

\* mutant: a cursor is kept although the direction is missing
buildPageUrl_CursorAlone(params, nextPage, cursor, direction) ==
    [page |-> Some(String(nextPage)), cursor |-> cursor,
     direction |-> IF HasCursor(cursor) /\ Truthy(direction)
                   THEN direction ELSE NULL]

buildPageUrl(params, nextPage, cursor, direction) ==
    IF HasCursor(cursor) /\ Truthy(direction)
    THEN [page |-> Some(String(nextPage)), cursor |-> cursor,
          direction |-> direction]
    ELSE [page |-> Some(String(nextPage)), cursor |-> NULL,
          direction |-> NULL]

\* mutant: the cross-chunk link is built without looking at endCursor
nextUrl_NoCursorTest(params, coll) ==
    LET page == currentPage(params, coll.nodes)
    IN  IF page < totalPages(coll.nodes)
        THEN Some(buildPageUrl(params, page + 1, params.cursor, params.direction))
        ELSE IF coll.pageInfo.hasNextPage
        THEN Some(buildPageUrl(params, 1, coll.pageInfo.endCursor, Some("next")))
        ELSE NULL

\* mutant: no link leaves the chunk
nextUrl_StopsAtChunkEnd(params, coll) ==
    LET page == currentPage(params, coll.nodes)
    IN  IF page < totalPages(coll.nodes)
        THEN Some(buildPageUrl(params, page + 1, params.cursor, params.direction))
        ELSE NULL

nextUrl(params, coll) ==
    LET page == currentPage(params, coll.nodes)
    IN  IF page < totalPages(coll.nodes)
        THEN Some(buildPageUrl(params, page + 1, params.cursor, params.direction))
        ELSE IF coll.pageInfo.hasNextPage /\ HasCursor(coll.pageInfo.endCursor)
        THEN Some(buildPageUrl(params, 1, coll.pageInfo.endCursor, Some("next")))
        ELSE NULL

\* mutant: the previous chunk is entered on its first page
prevUrl_FirstPage(params, coll) ==
    LET page == currentPage(params, coll.nodes)
    IN  IF page > 1
        THEN Some(buildPageUrl(params, page - 1, params.cursor, params.direction))
        ELSE IF coll.pageInfo.hasPreviousPage /\ HasCursor(coll.pageInfo.startCursor)
        THEN Some(buildPageUrl(params, 1,
                               coll.pageInfo.startCursor, Some("previous")))
        ELSE NULL

prevUrl(params, coll) ==
    LET page == currentPage(params, coll.nodes)
    IN  IF page > 1
        THEN Some(buildPageUrl(params, page - 1, params.cursor, params.direction))
        ELSE IF coll.pageInfo.hasPreviousPage /\ HasCursor(coll.pageInfo.startCursor)
        THEN Some(buildPageUrl(params, PAGES_PER_CHUNK,
                               coll.pageInfo.startCursor, Some("previous")))
        ELSE NULL

\* mutant: a page-number link always points into the first chunk
pageUrl_FirstChunk(params, pageNumber) ==
    buildPageUrl(params, pageNumber, NULL, NULL)

pageUrl(params, pageNumber) ==
    buildPageUrl(params, pageNumber, params.cursor, params.direction)

Collection(params, coll) ==
    [totalPages   |-> totalPages(coll.nodes),
     currentPage  |-> currentPage(params, coll.nodes),
     visibleNodes |-> visibleNodes(coll.nodes, currentPage(params, coll.nodes)),
     nextUrl      |-> nextUrl(params, coll),
     prevUrl      |-> prevUrl(params, coll),
     pageUrls     |-> [n \in 1..totalPages(coll.nodes) |-> pageUrl(params, n)]]

----------------------------------------------------------------------------
(* The product page: image list *)

FadeDelay == 200

SweepDelay == 2000

ThumbnailDelay == 2000

BaseImageIds == <<"a", "b", "c", "d", "e">>

\* the image of a variant that is not among the product's images
ExtraImageId == "v"

\* Image.url of the Storefront API; the URL of image "b" has a query string
ImageUrl(id) ==
    IF id = "b" THEN <<"cdn/", id, "?", "v=1">> ELSE <<"cdn/", id>>

Image(id) == [id |-> id, url |-> ImageUrl(id)]

withImageWidth(url, width) ==
    LET separator == IF \E i \in 1..Len(url) : url[i] = "?" THEN "&" ELSE "?"
    IN  url \o <<separator, "width=", width>>

\* the URL the carousel loads an image at
targetUrl(image) == withImageWidth(image.url, "800")

\* images.findIndex(image => image.id === id), 0-based, -1 when absent
findIndex(imgs, id) ==
    IF \E i \in 1..Len(imgs) : imgs[i].id = id
    THEN (CHOOSE i \in 1..Len(imgs) :
            /\ imgs[i].id = id
            /\ \A j \in 1..(i - 1) : imgs[j].id # id) - 1
    ELSE 0 - 1

\* mutant: the variant image is injected without the test on its id
imagesMemo_NoDedup(base, vimg) ==
    IF vimg = NULL THEN base ELSE <<vimg[1]>> \o base

\* the useMemo of `images`
imagesMemo(base, vimg) ==
    IF vimg = NULL THEN base
    ELSE IF \E i \in 1..Len(base) : base[i].id = vimg[1].id THEN base
    ELSE <<vimg[1]>> \o base

\* images[index] of a 0-based index, NULL when there is none
ImageAt(imgs, index) ==
    IF index \in 0..(Len(imgs) - 1) THEN Some(imgs[index + 1]) ELSE NULL

----------------------------------------------------------------------------
(* The product page: state, effects and the commit of a render *)

\* useState initial values; no timer, no preload in flight
InitialCarousel ==
    [activeIndex    |-> 0,
     displayIndex   |-> 0,
     pendingIndex   |-> NULL,
     phase          |-> "idle",
     loadThumbnails |-> FALSE,
     loadedImages   |-> {},
     timers         |-> <<>>,
     preloads       |-> {}]

\* the part of the record that is React state: a change of it re-renders
ReactState(c) ==
    <<c.activeIndex, c.displayIndex, c.pendingIndex, c.phase,
      c.loadThumbnails, c.loadedImages>>

Timer(kind, delay, index) == [kind |-> kind, delay |-> delay, index |-> index]

setTimeout(c, timer) == [c EXCEPT !.timers = Append(@, timer)]

RemoveAt(seq, i) == SubSeq(seq, 1, i - 1) \o SubSeq(seq, i + 1, Len(seq))

\* clearTimeout of every pending timer of a kind
clearTimeout(c, kind) ==
    [c EXCEPT !.timers = SelectSeq(@, LAMBDA t : t.kind # kind)]

\* a timer runs after the timers started before it with a delay not longer
\* than its own
CanFire(c, i) ==
    /\ i \in 1..Len(c.timers)
    /\ \A j \in 1..(i - 1) : c.timers[j].delay > c.timers[i].delay

\* mutant: the new set holds the marked URL only
markLoaded_Replace(c, url) ==
    IF url \in c.loadedImages THEN c
    ELSE [c EXCEPT !.loadedImages = {url}]

\* mutant: a completed load also drops the pending index
markLoaded_ClearsPending(c, url) ==
    IF url \in c.loadedImages THEN c
    ELSE [c EXCEPT !.loadedImages = @ \cup {url}, !.pendingIndex = NULL]

markLoaded(c, url) ==
    IF url \in c.loadedImages THEN c
    ELSE [c EXCEPT !.loadedImages = @ \cup {url}]

\* new Image() with src = url: the URL is being loaded.  Loads of one URL
\* are not told apart: each of them can only mark that URL loaded.
preloadImage(c, url) == [c EXCEPT !.preloads = @ \cup {url}]

\* Each effect reads the values of the render it belongs to (`snap`) and
\* queues its state updates, which are applied on top of those of the effects
\* before it (`st`).

\* the variant image sync effect
variantSyncEffect(snap, st, imgs, vimg) ==
    LET matchIndex == IF vimg = NULL THEN 0 - 1 ELSE findIndex(imgs, vimg[1].id)
    IN  IF vimg # NULL /\ matchIndex >= 0
        THEN [st EXCEPT !.activeIndex = matchIndex,
                        !.displayIndex = matchIndex,
                        !.pendingIndex = NULL,
                        !.phase = "idle"]
        ELSE IF Len(imgs) # 0 /\ snap.displayIndex >= Len(imgs)
        THEN [st EXCEPT !.activeIndex = 0, !.displayIndex = 0]
        ELSE st

\* mutant: the sweep is armed without the test on the loaded set
sweepEffect_NoAllLoadedTest(snap, st, imgs) ==
    IF Len(imgs) = 0 THEN st
    ELSE setTimeout(st, Timer("sweep", SweepDelay, NULL))

\* the background preload sweep effect
sweepEffect(snap, st, imgs) ==
    IF Len(imgs) = 0 THEN st
    ELSE IF \A i \in 1..Len(imgs) : targetUrl(imgs[i]) \in snap.loadedImages
    THEN st
    ELSE setTimeout(st, Timer("sweep", SweepDelay, NULL))

\* mutant: the fade starts without the target being loaded
transitionEffect_NoLoadedTest(snap, st, imgs) ==
    IF snap.pendingIndex = NULL THEN st
    ELSE IF snap.pendingIndex[1] = snap.displayIndex
    THEN [st EXCEPT !.pendingIndex = NULL]
    ELSE IF ImageAt(imgs, snap.pendingIndex[1]) = NULL THEN st
    ELSE setTimeout([st EXCEPT !.phase = "fade-out"],
                    Timer("fadeOut", FadeDelay, snap.pendingIndex))

\* mutant: an unloaded target is preloaded again each time the effect runs
transitionEffect_Retries(snap, st, imgs) ==
    IF snap.pendingIndex = NULL THEN st
    ELSE IF snap.pendingIndex[1] = snap.displayIndex
    THEN [st EXCEPT !.pendingIndex = NULL]
    ELSE IF ImageAt(imgs, snap.pendingIndex[1]) = NULL THEN st
    ELSE IF targetUrl(ImageAt(imgs, snap.pendingIndex[1])[1]) \notin snap.loadedImages
    THEN preloadImage(st, targetUrl(ImageAt(imgs, snap.pendingIndex[1])[1]))
    ELSE setTimeout([st EXCEPT !.phase = "fade-out"],
                    Timer("fadeOut", FadeDelay, snap.pendingIndex))

\* mutant: clearing a pending index that is on display also ends the phase
transitionEffect_ResetsPhase(snap, st, imgs) ==
    IF snap.pendingIndex = NULL THEN st
    ELSE IF snap.pendingIndex[1] = snap.displayIndex
    THEN [st EXCEPT !.pendingIndex = NULL, !.phase = "idle"]
    ELSE IF ImageAt(imgs, snap.pendingIndex[1]) = NULL THEN st
    ELSE IF targetUrl(ImageAt(imgs, snap.pendingIndex[1])[1]) \notin snap.loadedImages
    THEN st
    ELSE setTimeout([st EXCEPT !.phase = "fade-out"],
                    Timer("fadeOut", FadeDelay, snap.pendingIndex))

\* the transition effect
transitionEffect(snap, st, imgs) ==
    IF snap.pendingIndex = NULL THEN st
    ELSE IF snap.pendingIndex[1] = snap.displayIndex
    THEN [st EXCEPT !.pendingIndex = NULL]
    ELSE IF ImageAt(imgs, snap.pendingIndex[1]) = NULL THEN st
    ELSE IF targetUrl(ImageAt(imgs, snap.pendingIndex[1])[1]) \notin snap.loadedImages
    THEN st
    ELSE setTimeout([st EXCEPT !.phase = "fade-out"],
                    Timer("fadeOut", FadeDelay, snap.pendingIndex))

\* One commit after a render with state `cur`, the commit before it having
\* seen `prev`: the effects whose dependencies changed are cleaned up, then
\* run in the order of the source; if they changed the state the component
\* renders and commits again.
RECURSIVE commit(_, _, _, _, _, _)
commit(prev, cur, imgs, vimg, variantChanged, imagesChanged) ==
    LET runSync  == variantChanged \/ imagesChanged
        runSweep == imagesChanged \/ prev.loadedImages # cur.loadedImages
        runTransition ==
            \/ imagesChanged
            \/ prev.pendingIndex # cur.pendingIndex
            \/ prev.displayIndex # cur.displayIndex
            \/ prev.loadedImages # cur.loadedImages
        c1 == IF runSweep THEN clearTimeout(cur, "sweep") ELSE cur
        c2 == IF runTransition THEN clearTimeout(c1, "fadeOut") ELSE c1
        s1 == IF runSync THEN variantSyncEffect(cur, c2, imgs, vimg) ELSE c2
        s2 == IF runSweep THEN sweepEffect(cur, s1, imgs) ELSE s1
        s3 == IF runTransition THEN transitionEffect(cur, s2, imgs) ELSE s2
    IN  IF ReactState(s3) = ReactState(cur) THEN s3
        ELSE commit(cur, s3, imgs, vimg, FALSE, FALSE)

\* an event handler or callback moved the state from `c` to `cur`
render(c, cur, imgs, vimg) ==
    IF ReactState(cur) = ReactState(c) THEN cur
    ELSE commit(c, cur, imgs, vimg, FALSE, FALSE)

\* the first render and its effects, among them the thumbnail timer
mount(imgs, vimg) ==
    commit(InitialCarousel,
           setTimeout(InitialCarousel, Timer("thumbnails", ThumbnailDelay, NULL)),
           imgs, vimg, TRUE, TRUE)

\* mutant: a call with the active index is not ignored
switchTo_NoActiveTest(c, imgs, index) ==
    IF Len(imgs) = 0 THEN c
    ELSE LET target == ImageAt(imgs, index)
             started == IF target # NULL /\ targetUrl(target[1]) \notin c.loadedImages
                        THEN preloadImage(c, targetUrl(target[1]))
                        ELSE c
         IN  [started EXCEPT !.activeIndex = index, !.pendingIndex = Some(index)]

\* mutant: no preload is started
switchTo_NoPreload(c, imgs, index) ==
    IF Len(imgs) = 0 \/ index = c.activeIndex THEN c
    ELSE [c EXCEPT !.activeIndex = index, !.pendingIndex = Some(index)]

\* switchTo(index): the new state before it is rendered
switchTo(c, imgs, index) ==
    IF Len(imgs) = 0 \/ index = c.activeIndex THEN c
    ELSE LET target == ImageAt(imgs, index)
             started == IF target # NULL /\ targetUrl(target[1]) \notin c.loadedImages
                        THEN preloadImage(c, targetUrl(target[1]))
                        ELSE c
         IN  [started EXCEPT !.activeIndex = index, !.pendingIndex = Some(index)]

\* the indices switchTo can be called with: the previous and next buttons
\* of the displayed image and, once they are rendered, the thumbnails
Clickable(c, imgs) ==
    (IF ImageAt(imgs, c.displayIndex) # NULL
     THEN {(c.activeIndex - 1 + Len(imgs)) % Len(imgs),
           (c.activeIndex + 1) % Len(imgs)}
     ELSE {})
    \cup
    (IF Len(imgs) > 1 /\ c.loadThumbnails THEN 0..(Len(imgs) - 1) ELSE {})

\* the callback of the fade-out timer
fadeOutCallback(c, index) ==
    setTimeout([c EXCEPT !.displayIndex = index, !.phase = "fade-in"],
               Timer("fadeIn", FadeDelay, NULL))

\* the callback of the fade-in timer
fadeInCallback(c) == [c EXCEPT !.phase = "idle", !.pendingIndex = NULL]

\* the callback of the sweep timer
RECURSIVE sweepCallback(_, _, _)
sweepCallback(c, imgs, i) ==
    IF i > Len(imgs) THEN c
    ELSE sweepCallback(
             IF targetUrl(imgs[i]) \in c.loadedImages THEN c
             ELSE preloadImage(c, targetUrl(imgs[i])),
             imgs, i + 1)

----------------------------------------------------------------------------
(* Navigation *)

\* `page` values a visitor may put in the address bar besides those the
\* page's own links produce
TypedPages ==
    { NULL, Some(<<>>), Some(<<"0">>), Some(<<"-", "3">>),
      Some(<<"a", "b", "c">>), Some(<<"2", "x">>), Some(<<"+", "2">>),
      Some(<<"0", "3">>), Some(<<"1">>), Some(<<"2">>), Some(<<"4">>),
      Some(<<"5">>), Some(<<"9", "9", "9", "9", "9">>) }

\* cursors of the collection a visitor may arrive with: the chunk boundaries
\* the links produce and the first product's cursor
TypedCursors(size) ==
    {NULL} \cup {Some(k) : k \in {1, PAGE_SIZE * PAGES_PER_CHUNK,
                                  PAGE_SIZE * PAGES_PER_CHUNK + 1} \cap 1..size}

TypedDirections == {NULL, Some(""), Some("next"), Some("previous"), Some("up")}

\* the recently viewed list is not followed
RecentClosed ==
    /\ stored = NULL
    /\ recentlyViewed = <<>>
    /\ product = NULL
    /\ views = 0

\* the product page is not open
ProductClosed ==
    /\ RecentClosed
    /\ baseImages = <<>>
    /\ variantImage = NULL
    /\ images = <<>>
    /\ carousel = NULL
    /\ firstShown = TRUE
    /\ following = FALSE
    /\ failed = NULL

\* the route is entered with `params`: the loader runs, then the page renders
Navigate(params) ==
    /\ search' = params
    /\ collection' = loadCriticalData(catalogSize, params)
    /\ view' = Collection(params, collection')
    /\ UNCHANGED <<catalogSize, productVars, recentVars>>

\* a visitor enters the collection page of some store through any URL
Init ==
    /\ catalogSize \in 0..MaxCatalog
    /\ \E p \in TypedPages, c \in TypedCursors(catalogSize), d \in TypedDirections :
          search = [page |-> p, cursor |-> c, direction |-> d]
    /\ collection = loadCriticalData(catalogSize, search)
    /\ view = Collection(search, collection)
    /\ last = "typed"
    /\ ProductClosed

FollowNext ==
    /\ view.nextUrl # NULL
    /\ Navigate(view.nextUrl[1])
    /\ last' = "next"

FollowPrevious ==
    /\ view.prevUrl # NULL
    /\ Navigate(view.prevUrl[1])
    /\ last' = "previous"

FollowPageLink ==
    \E n \in 1..view.totalPages :
        /\ n # view.currentPage
        /\ Navigate(view.pageUrls[n])
        /\ last' = "page"

Next == FollowNext \/ FollowPrevious \/ FollowPageLink

Spec == Init /\ [][Next]_vars

----------------------------------------------------------------------------
(* Collection() on loader data of any shape *)

\* Collection() on the `collection` object as useLoaderData() hands it over:
\* `products`, its `nodes` and its `pageInfo` may each be missing.  The nodes
\* are read with ?. and ??, the pageInfo is destructured from
\* collection.products.pageInfo unguarded.
CollectionRender(params, data) ==
    IF data.products = NULL \/ data.products[1].pageInfo = NULL
    THEN [error |-> Some("TypeError"), rendered |-> NULL]
    ELSE [error |-> NULL,
          rendered |->
            Some(Collection(params,
                   [nodes    |-> IF data.products[1].nodes = NULL THEN <<>>
                                 ELSE data.products[1].nodes[1],
                    pageInfo |-> data.products[1].pageInfo[1]]))]

\* chunk lengths around the page and chunk boundaries
ChunkLengths == {0, 1, PAGE_SIZE, PAGE_SIZE + 1, PAGE_SIZE * PAGES_PER_CHUNK}

\* connection metadata with present and missing cursors
PageInfos ==
    [hasNextPage : BOOLEAN, hasPreviousPage : BOOLEAN,
     startCursor : {NULL, Some(1)},
     endCursor : {NULL, Some(PAGE_SIZE * PAGES_PER_CHUNK)}]

\* loader data, well-formed and not
LoaderData ==
    {[products |-> NULL]}
      \cup {[products |-> Some([nodes |-> n, pageInfo |-> p])] :
               n \in {NULL} \cup {Some([i \in 1..k |-> i]) : k \in ChunkLengths},
               p \in {NULL} \cup {Some(q) : q \in PageInfos}}

\* the loader has returned some data for some URL; nothing is rendered yet
InitRender ==
    /\ catalogSize = 0
    /\ \E p \in TypedPages, c \in {NULL, Some(1)}, d \in TypedDirections :
          search = [page |-> p, cursor |-> c, direction |-> d]
    /\ collection \in LoaderData
    /\ view = NULL
    /\ last = "loaded"
    /\ ProductClosed

\* the component renders the loader data
Render ==
    /\ last = "loaded"
    /\ view' = CollectionRender(search, collection)
    /\ last' = "rendered"
    /\ UNCHANGED <<catalogSize, search, collection, productVars, recentVars>>

NextRender == Render

SpecRender == InitRender /\ [][NextRender]_vars

----------------------------------------------------------------------------
(* The product page: events *)

\* the collection page is not open
CollectionClosed ==
    /\ catalogSize = 0
    /\ search = NULL
    /\ collection = NULL
    /\ view = NULL

\* the images a selected variant may have: none, one of the product's
\* images, or one that is not among them
Variants(base) ==
    {NULL} \cup {Some(Image(base[i].id)) : i \in 1..Len(base)}
           \cup {Some(Image(ExtraImageId))}

\* the id of the image on display, NULL when there is none
Displayed(c, imgs) ==
    IF ImageAt(imgs, c.displayIndex) = NULL THEN NULL
    ELSE Some(ImageAt(imgs, c.displayIndex)[1].id)

\* firstShown holds until an image on display is replaced by another one
FirstShownStep ==
    firstShown' = (firstShown
                     /\ Displayed(carousel, images)
                          \in {NULL, Displayed(carousel', images')})

\* a product page is opened on some product with some variant selected
InitProduct ==
    /\ \E n \in 0..MaxBaseImages :
          baseImages = [i \in 1..n |-> Image(BaseImageIds[i])]
    /\ variantImage \in Variants(baseImages)
    /\ images = imagesMemo(baseImages, variantImage)
    /\ carousel = mount(images, variantImage)
    /\ firstShown = TRUE
    /\ following = FALSE
    /\ failed = NULL
    /\ last = "none"
    /\ CollectionClosed
    /\ RecentClosed

\* a click on the previous or next button or on a thumbnail
SwitchTo ==
    \E index \in Clickable(carousel, images) :
        LET target == ImageAt(images, index)
            loaded == target # NULL
                        /\ targetUrl(target[1]) \in carousel.loadedImages
        IN  /\ carousel' = render(carousel, switchTo(carousel, images, index),
                                  images, variantImage)
            /\ following' = (/\ carousel.phase = "idle"
                              /\ index # carousel.activeIndex
                              /\ index # carousel.displayIndex
                              /\ loaded)
            /\ failed' = IF index # carousel.activeIndex /\ target # NULL
                              /\ failed = Some(targetUrl(target[1]))
                          THEN NULL ELSE failed
            /\ last' = IF index = carousel.activeIndex THEN "ignored" ELSE "none"
            /\ UNCHANGED <<baseImages, variantImage, images, collectionVars, recentVars>>
            /\ FirstShownStep

\* preloader.onload
PreloadLoaded ==
    \E url \in carousel.preloads :
        /\ carousel' = render(carousel,
                              markLoaded([carousel EXCEPT !.preloads = @ \ {url}],
                                         url),
                              images, variantImage)
        /\ failed' = IF failed = Some(url) THEN NULL ELSE failed
        /\ last' = IF url \in carousel.loadedImages THEN "reloaded" ELSE "none"
        /\ UNCHANGED
             <<baseImages, variantImage, images, following, collectionVars, recentVars>>
        /\ FirstShownStep

\* the preloader fails: it has no error handler
PreloadFailed ==
    \E url \in carousel.preloads :
        /\ carousel' = [carousel EXCEPT !.preloads = @ \ {url}]
        /\ failed' = IF url \in carousel.loadedImages THEN failed ELSE Some(url)
        /\ last' = "none"
        /\ UNCHANGED
             <<baseImages, variantImage, images, following, collectionVars, recentVars>>
        /\ FirstShownStep

\* onLoad of the main <img>, whose src is the displayed image's URL
MainImageLoaded ==
    /\ ImageAt(images, carousel.displayIndex) # NULL
    /\ LET url == targetUrl(ImageAt(images, carousel.displayIndex)[1])
       IN  /\ url \notin carousel.loadedImages
           /\ carousel' = render(carousel, markLoaded(carousel, url),
                                 images, variantImage)
           /\ failed' = IF failed = Some(url) THEN NULL ELSE failed
    /\ last' = "none"
    /\ UNCHANGED <<baseImages, variantImage, images, following,
                   collectionVars, recentVars>>
    /\ FirstShownStep

FireFadeOut ==
    \E i \in 1..Len(carousel.timers) :
        /\ CanFire(carousel, i)
        /\ carousel.timers[i].kind = "fadeOut"
        /\ LET fired == [carousel EXCEPT !.timers = RemoveAt(@, i)]
           IN  carousel' = render(fired,
                                  fadeOutCallback(fired, carousel.timers[i].index[1]),
                                  images, variantImage)
        /\ last' = "none"
        /\ UNCHANGED <<baseImages, variantImage, images, following, failed,
                       collectionVars, recentVars>>
        /\ FirstShownStep

FireFadeIn ==
    \E i \in 1..Len(carousel.timers) :
        /\ CanFire(carousel, i)
        /\ carousel.timers[i].kind = "fadeIn"
        /\ LET fired == [carousel EXCEPT !.timers = RemoveAt(@, i)]
           IN  carousel' = render(fired, fadeInCallback(fired),
                                  images, variantImage)
        /\ last' = "none"
        /\ UNCHANGED <<baseImages, variantImage, images, following, failed,
                       collectionVars, recentVars>>
        /\ FirstShownStep

FireSweep ==
    \E i \in 1..Len(carousel.timers) :
        /\ CanFire(carousel, i)
        /\ carousel.timers[i].kind = "sweep"
        /\ carousel' = sweepCallback([carousel EXCEPT !.timers = RemoveAt(@, i)],
                                     images, 1)
        /\ last' = "none"
        /\ UNCHANGED <<baseImages, variantImage, images, following, failed,
                       collectionVars, recentVars>>
        /\ FirstShownStep

FireThumbnails ==
    \E i \in 1..Len(carousel.timers) :
        /\ CanFire(carousel, i)
        /\ carousel.timers[i].kind = "thumbnails"
        /\ LET fired == [carousel EXCEPT !.timers = RemoveAt(@, i)]
           IN  carousel' = render(fired, [fired EXCEPT !.loadThumbnails = TRUE],
                                  images, variantImage)
        /\ last' = "none"
        /\ UNCHANGED <<baseImages, variantImage, images, following, failed,
                       collectionVars, recentVars>>
        /\ FirstShownStep

\* another variant is selected (useOptimisticVariant)
SelectVariant ==
    \E v \in Variants(baseImages) :
        /\ v # variantImage
        /\ variantImage' = v
        /\ images' = imagesMemo(baseImages, v)
        /\ carousel' = commit(carousel, carousel, images', v,
                              TRUE, images' # images)
        /\ following' = FALSE
        /\ failed' = IF images' # images THEN NULL ELSE failed
        /\ last' = "none"
        /\ UNCHANGED <<baseImages, collectionVars, recentVars>>
        /\ FirstShownStep

\* the loader ran again: product.images.nodes is a new array of the same images
Revalidate ==
    /\ carousel' = commit(carousel, carousel, images, variantImage, FALSE, TRUE)
    /\ following' = FALSE
    /\ failed' = NULL
    /\ last' = "none"
    /\ UNCHANGED <<baseImages, variantImage, images, collectionVars, recentVars>>
    /\ FirstShownStep

NextProduct ==
    \/ SwitchTo
    \/ PreloadLoaded
    \/ PreloadFailed
    \/ MainImageLoaded
    \/ FireFadeOut
    \/ FireFadeIn
    \/ FireSweep
    \/ FireThumbnails
    \/ SelectVariant
    \/ Revalidate

SpecProduct == InitProduct /\ [][NextProduct]_vars

----------------------------------------------------------------------------
(* Properties of the chunk paginator *)

\* the decimal text of a small page number, written out
PageText(n) ==
    CASE n = 0 -> <<"0">> [] n = 1 -> <<"1">> [] n = 2 -> <<"2">>
      [] n = 3 -> <<"3">> [] n = 4 -> <<"4">> [] n = 5 -> <<"5">>
      [] n = 6 -> <<"6">>

\* page parameters that are absent, empty, zero, negative or not a number
NoPageValues ==
    { NULL, Some(<<>>), Some(<<"0">>), Some(<<"-", "3">>),
      Some(<<"a", "b", "c">>), Some(<<"2", "x">>) }

\* the number every other page parameter of the model stands for
PageValue(p) ==
    CASE p = Some(<<"1">>) -> 1 [] p = Some(<<"2">>) -> 2
      [] p = Some(<<"+", "2">>) -> 2 [] p = Some(<<"3">>) -> 3
      [] p = Some(<<"0", "3">>) -> 3 [] p = Some(<<"4">>) -> 4
      [] p = Some(<<"5">>) -> 5
      [] p = Some(<<"9", "9", "9", "9", "9">>) -> 99999

\* the current URL names a chunk: it carries a cursor and a non-empty direction
UrlNamesChunk ==
    search.cursor # NULL /\ search.direction \notin {NULL, Some("")}

\* an intra-chunk target for page n: the page number, and the current URL's
\* chunk when it names one
IsIntraChunkTarget(url, n) ==
    /\ url.page = Some(PageText(n))
    /\ IF UrlNamesChunk
       THEN url.cursor = search.cursor /\ url.direction = search.direction
       ELSE url.cursor = NULL /\ url.direction = NULL

\* C1: totalPages = max(1, ceil(len(items) / PAGE_SIZE)) and currentPage lies
\* in 1..totalPages for every chunk length and page parameter; a parameter
\* that is NaN or <= 0 gives page 1, one above totalPages gives totalPages.
C1_PageInRange ==
    LET len == Len(collection.nodes)
        t   == view.totalPages
    IN  /\ t >= 1
        /\ t * PAGE_SIZE >= len
        /\ (t > 1 => (t - 1) * PAGE_SIZE < len)
        /\ view.currentPage \in 1..t
        /\ (search.page \in NoPageValues => view.currentPage = 1)
        /\ (search.page \notin NoPageValues =>
              view.currentPage = IF PageValue(search.page) > t THEN t
                                 ELSE PageValue(search.page))

C1_Witness ==
    /\ search.page = Some(<<"9", "9", "9", "9", "9">>)
    /\ Len(collection.nodes) = 101
    /\ view.totalPages = 3
    /\ view.currentPage = 3

\* C2 (as stated): a move inside the chunk yields a target with the page
\* number only, never a cursor or a direction.
C2_TargetHasPageOnly ==
    /\ (view.currentPage < view.totalPages =>
          view.nextUrl = Some([page |-> Some(PageText(view.currentPage + 1)),
                               cursor |-> NULL, direction |-> NULL]))
    /\ (view.currentPage > 1 =>
          view.prevUrl = Some([page |-> Some(PageText(view.currentPage - 1)),
                               cursor |-> NULL, direction |-> NULL]))

\* C2 (amended): a move inside the chunk yields a target with the page number
\* currentPage+1 resp. currentPage-1 that carries the current URL's cursor and
\* direction when the URL has both, and neither of them otherwise.
C2_TargetKeepsChunk ==
    /\ (view.currentPage < view.totalPages =>
          /\ view.nextUrl # NULL
          /\ IsIntraChunkTarget(view.nextUrl[1], view.currentPage + 1))
    /\ (view.currentPage > 1 =>
          /\ view.prevUrl # NULL
          /\ IsIntraChunkTarget(view.prevUrl[1], view.currentPage - 1))

C2_Witness ==
    /\ view.currentPage = 2
    /\ view.totalPages = 4
    /\ search.cursor = Some(200)
    /\ search.direction = Some("next")
    /\ view.nextUrl = Some([page |-> Some(<<"3">>), cursor |-> Some(200),
                            direction |-> Some("next")])

\* C3: on the last page of the chunk the next target is exactly
\* {page: 1, cursor: endCursor, direction: "next"} when hasNextPage is true and
\* endCursor is present, and there is no next target otherwise.
C3_CrossChunkNext ==
    view.currentPage = view.totalPages =>
        IF collection.pageInfo.hasNextPage /\ collection.pageInfo.endCursor # NULL
        THEN view.nextUrl = Some([page |-> Some(<<"1">>),
                                  cursor |-> collection.pageInfo.endCursor,
                                  direction |-> Some("next")])
        ELSE view.nextUrl = NULL

C3_Witness ==
    /\ view.currentPage = view.totalPages
    /\ collection.pageInfo.hasNextPage
    /\ collection.pageInfo.endCursor = Some(400)
    /\ view.nextUrl = Some([page |-> Some(<<"1">>), cursor |-> Some(400),
                            direction |-> Some("next")])

\* C4 (as stated): the previous target is {page: currentPage-1} when
\* currentPage > 1, else {page: PAGES_PER_CHUNK, cursor: startCursor,
\* direction: "previous"} when hasPreviousPage and startCursor, else none.
C4_PreviousAsStated ==
    IF view.currentPage > 1
    THEN view.prevUrl = Some([page |-> Some(PageText(view.currentPage - 1)),
                              cursor |-> NULL, direction |-> NULL])
    ELSE IF collection.pageInfo.hasPreviousPage
            /\ collection.pageInfo.startCursor # NULL
    THEN view.prevUrl = Some([page |-> Some(<<"4">>),
                              cursor |-> collection.pageInfo.startCursor,
                              direction |-> Some("previous")])
    ELSE view.prevUrl = NULL

\* C4 (amended): as stated, except that the target for currentPage-1 also
\* carries the current URL's cursor and direction when the URL has both.
C4_PreviousTarget ==
    IF view.currentPage > 1
    THEN /\ view.prevUrl # NULL
         /\ IsIntraChunkTarget(view.prevUrl[1], view.currentPage - 1)
    ELSE IF collection.pageInfo.hasPreviousPage
            /\ collection.pageInfo.startCursor # NULL
    THEN view.prevUrl = Some([page |-> Some(<<"4">>),
                              cursor |-> collection.pageInfo.startCursor,
                              direction |-> Some("previous")])
    ELSE view.prevUrl = NULL

C4_Witness ==
    /\ view.currentPage = 1
    /\ collection.pageInfo.hasPreviousPage
    /\ view.prevUrl = Some([page |-> Some(<<"4">>), cursor |-> Some(201),
                            direction |-> Some("previous")])

\* C5 (as stated): no page-number link carries a cursor or a direction.
C5_PageLinksHavePageOnly ==
    \A n \in 1..view.totalPages :
        view.pageUrls[n] = [page |-> Some(PageText(n)),
                            cursor |-> NULL, direction |-> NULL]

\* C5 (amended): every page-number link 1..totalPages carries its page number
\* and stays in the chunk of the current URL: it carries the current URL's
\* cursor and direction when the URL has both, and neither otherwise.
C5_PageLinksKeepChunk ==
    /\ DOMAIN view.pageUrls = 1..view.totalPages
    /\ \A n \in 1..view.totalPages : IsIntraChunkTarget(view.pageUrls[n], n)

C5_Witness ==
    /\ search = [page |-> Some(<<"1">>), cursor |-> Some(200),
                 direction |-> Some("next")]
    /\ view.totalPages = 3
    /\ view.pageUrls[3] = [page |-> Some(<<"3">>), cursor |-> Some(200),
                           direction |-> Some("next")]

RECURSIVE SumOfLengths(_, _)
SumOfLengths(nodes, t) ==
    IF t = 0 THEN 0
    ELSE SumOfLengths(nodes, t - 1) + Len(visibleNodes(nodes, t))

ItemsOf(s) == {s[i] : i \in 1..Len(s)}

\* C6: the pages 1..totalPages partition the chunk: their lengths sum to
\* len(items), every page but the last has PAGE_SIZE items, no item is on
\* two pages.
C6_PagesPartitionChunk ==
    LET nodes == collection.nodes
        t     == view.totalPages
    IN  /\ SumOfLengths(nodes, t) = Len(nodes)
        /\ \A p \in 1..(t - 1) : Len(visibleNodes(nodes, p)) = PAGE_SIZE
        /\ \A p, q \in 1..t :
             p # q => ItemsOf(visibleNodes(nodes, p))
                        \cap ItemsOf(visibleNodes(nodes, q)) = {}
        /\ Len(view.visibleNodes) = Len(visibleNodes(nodes, view.currentPage))

C6_Witness ==
    /\ Len(collection.nodes) = 120
    /\ view.currentPage = 3
    /\ view.totalPages = 3
    /\ Len(view.visibleNodes) = 20

\* C7: the visible items are items[(currentPage-1)*pageSize :
\* currentPage*pageSize] in the order of the API response; 137 items and
\* page=5 give totalPages 3, currentPage 3 and 37 visible items; an empty chunk
\* gives no visible item.
C7_VisibleIsSlice ==
    LET nodes == collection.nodes
        from  == (view.currentPage - 1) * PAGE_SIZE
        upto  == IF view.currentPage * PAGE_SIZE < Len(nodes)
                 THEN view.currentPage * PAGE_SIZE ELSE Len(nodes)
    IN  /\ Len(view.visibleNodes) = IF upto > from THEN upto - from ELSE 0
        /\ \A i \in 1..Len(view.visibleNodes) :
             view.visibleNodes[i] = nodes[from + i]
        /\ \A i \in 1..(Len(nodes) - 1) : nodes[i + 1] = nodes[i] + 1
        /\ (Len(nodes) = 137 /\ search.page = Some(<<"5">>) =>
              /\ view.totalPages = 3
              /\ view.currentPage = 3
              /\ Len(view.visibleNodes) = 37)
        /\ (nodes = <<>> => view.visibleNodes = <<>>)

C7_Witness ==
    /\ Len(collection.nodes) = 137
    /\ search.page = Some(<<"5">>)
    /\ view.currentPage = 3
    /\ Len(view.visibleNodes) = 37
    /\ view.visibleNodes[37] = collection.nodes[137]

----------------------------------------------------------------------------
(* Properties of the image carousel *)

\* the URL of the displayed image is in loadedImages
DisplayedIsLoaded ==
    ImageAt(images, carousel.displayIndex) # NULL =>
        targetUrl(ImageAt(images, carousel.displayIndex)[1]) \in carousel.loadedImages

HasTimer(c, kind) == \E i \in 1..Len(c.timers) : c.timers[i].kind = kind

\* C8: in every reachable state displayIndex designates an image whose URL is
\* in loadedImages, the image shown at mount excepted, whatever switchTo
\* calls, preload completions, timers and variant changes happened.
C8_DisplayedImageLoaded == firstShown \/ DisplayedIsLoaded

\* C9: a switch of the target during a transition cancels every pending fade
\* timer of the older transition, so a fade sequence is never started while a
\* fade-in timer of an older one is pending, and no fade-in timer fires into a
\* newer fade-out or clears a newer pending index.
C9_OlderFadeTimersCancelled ==
    [][ /\ ~(HasTimer(carousel', "fadeOut") /\ HasTimer(carousel', "fadeIn"))
        /\ (FireFadeIn =>
              carousel.phase # "fade-out" /\ carousel.pendingIndex = NULL) ]_vars

\* C10: switchTo(i) at phase idle, for a loaded image i that is neither the
\* active nor the displayed one, makes i active at once and, with nothing but
\* timers and image loads following, goes through fade-out (i pending, the
\* old image displayed), fade-in (i displayed) and idle (pendingIndex null).
C10_SwitchFadesToTarget ==
    following =>
        LET i == carousel.activeIndex
        IN  \/ /\ carousel.phase = "fade-out"
               /\ carousel.pendingIndex = Some(i)
               /\ carousel.displayIndex # i
               /\ HasTimer(carousel, "fadeOut")
            \/ /\ carousel.phase = "fade-in"
               /\ carousel.displayIndex = i
               /\ HasTimer(carousel, "fadeIn")
            \/ /\ carousel.phase = "idle"
               /\ carousel.displayIndex = i
               /\ carousel.pendingIndex = NULL

\* the URL of the image the pending switchTo call asked for, NULL when no
\* call is pending
PendingUrl(c, imgs) ==
    IF c.pendingIndex = NULL \/ ImageAt(imgs, c.pendingIndex[1]) = NULL THEN NULL
    ELSE Some(targetUrl(ImageAt(imgs, c.pendingIndex[1])[1]))

\* a step of a timer or of an image load: no call, no new props
TimerOrLoadStep ==
    \/ PreloadLoaded
    \/ PreloadFailed
    \/ MainImageLoaded
    \/ FireFadeOut
    \/ FireFadeIn
    \/ FireSweep
    \/ FireThumbnails

\* C11: after switchTo(i) for an image whose URL is not in loadedImages, no
\* timer and no image load changes displayIndex or phase for as long as that
\* URL is not in loadedImages.
C11_UnloadedTargetWaits ==
    [][ ( /\ TimerOrLoadStep
          /\ PendingUrl(carousel, images) # NULL
          /\ PendingUrl(carousel, images)[1] \notin carousel'.loadedImages )
        => /\ carousel'.displayIndex = carousel.displayIndex
           /\ carousel'.phase = carousel.phase ]_vars

\* C12: every step that changes displayIndex is the swap of a fade: it is
\* taken at phase fade-out and ends at phase fade-in.
C12_DisplayChangesInSwapOnly ==
    [][ carousel'.displayIndex # carousel.displayIndex
        => carousel.phase = "fade-out" /\ carousel'.phase = "fade-in" ]_vars

----------------------------------------------------------------------------
(* Properties of the collection loader *)

\* the first n products of a collection of `size` products
FirstItems(size, n) == [i \in 1..Min(size, n) |-> i]

\* C13: the loader queries the products with page size 200 and the URL's
\* cursor: direction "next" gives first = 200 after the cursor and no
\* last/before, direction "previous" gives last = 200 before the cursor and no
\* first/after, and a URL without cursor gives the first 200 items.
C13_LoaderVariables ==
    LET variables == getPaginationVariables(search, PAGE_SIZE * PAGES_PER_CHUNK)
    IN  /\ collection = ProductsConnection(catalogSize, variables)
        /\ (search.cursor # NULL /\ search.direction = Some("next") =>
              variables = [first |-> Some(200), endCursor |-> search.cursor,
                           last |-> NULL, startCursor |-> NULL])
        /\ (search.cursor # NULL /\ search.direction = Some("previous") =>
              variables = [last |-> Some(200), startCursor |-> search.cursor,
                           first |-> NULL, endCursor |-> NULL])
        /\ (search.cursor = NULL =>
              /\ variables = [first |-> Some(200), endCursor |-> NULL,
                              last |-> NULL, startCursor |-> NULL]
              /\ collection.nodes = FirstItems(catalogSize, 200))

----------------------------------------------------------------------------
(* Properties of Collection() on loader data of any shape *)

\* C14: the derivation never throws: for a bad page value, missing cursors,
\* one of cursor/direction alone, missing nodes or missing connection metadata
\* it completes; a bad page value gives page 1, a missing cursor gives no
\* next/previous link across the chunk boundary.
C14_NeverThrows ==
    last = "rendered" =>
        /\ view.error = NULL
        /\ LET v == view.rendered[1]
               info == collection.products[1].pageInfo[1]
           IN  /\ (search.page \in NoPageValues => v.currentPage = 1)
               /\ (v.currentPage = v.totalPages /\ info.endCursor = NULL
                     => v.nextUrl = NULL)
               /\ (v.currentPage = 1 /\ info.startCursor = NULL
                     => v.prevUrl = NULL)

----------------------------------------------------------------------------
(* Properties of switchTo, markLoaded and preloadImage *)

\* C15: switchTo(index) with an empty image list or with the active index
\* changes nothing: activeIndex, displayIndex, pendingIndex, phase and
\* loadedImages stay, no preload is started, nothing is rendered again.
C15_IgnoredCallIsNoOp ==
    /\ [](\A index \in (0 - 1)..Len(images) :
            (Len(images) = 0 \/ index = carousel.activeIndex) =>
                /\ switchTo(carousel, images, index) = carousel
                /\ render(carousel, switchTo(carousel, images, index),
                          images, variantImage) = carousel)
    /\ [][last' = "ignored" => carousel' = carousel]_vars

C15_Witness ==
    /\ last = "ignored"
    /\ carousel.activeIndex = 1
    /\ carousel.displayIndex = 0
    /\ carousel.pendingIndex = Some(1)

\* C16: a switchTo(index) that is not ignored sets activeIndex and
\* pendingIndex to index and leaves displayIndex, in the call and in the render
\* that follows it; it starts a preload of the target's URL exactly when that
\* URL is not in loadedImages.
C16_SwitchSetsActiveAndPending ==
    \A index \in Clickable(carousel, images) :
        index # carousel.activeIndex =>
            LET s     == switchTo(carousel, images, index)
                url   == targetUrl(ImageAt(images, index)[1])
                after == render(carousel, s, images, variantImage)
            IN  /\ s.activeIndex = index
                /\ s.pendingIndex = Some(index)
                /\ s.displayIndex = carousel.displayIndex
                /\ s.phase = carousel.phase
                /\ s.loadedImages = carousel.loadedImages
                /\ (url \notin carousel.loadedImages =>
                      s.preloads = carousel.preloads \cup {url})
                /\ (url \in carousel.loadedImages =>
                      s.preloads = carousel.preloads)
                /\ after.activeIndex = index
                /\ after.displayIndex = carousel.displayIndex
                /\ after.preloads = s.preloads

C16_Witness ==
    /\ Len(images) = 2
    /\ carousel.activeIndex = 1
    /\ carousel.pendingIndex = Some(1)
    /\ carousel.displayIndex = 0
    /\ targetUrl(images[2]) \in carousel.preloads
    /\ targetUrl(images[2]) \notin carousel.loadedImages

\* the URLs the carousel can be told about
KnownUrls ==
    {targetUrl(images[i]) : i \in 1..Len(images)}
        \cup carousel.preloads \cup carousel.loadedImages

\* C17: marking a URL loaded twice gives the state of marking it once;
\* marking a URL that is in loadedImages changes nothing and renders nothing;
\* the completion of a preload of such a URL changes no state and no timer;
\* no step removes a URL from loadedImages.
C17_MarkLoadedIdempotent ==
    /\ [](\A url \in KnownUrls :
            /\ markLoaded(markLoaded(carousel, url), url)
                  = markLoaded(carousel, url)
            /\ url \in markLoaded(carousel, url).loadedImages
            /\ (url \in carousel.loadedImages =>
                  markLoaded(carousel, url) = carousel))
    /\ [][ /\ carousel.loadedImages \subseteq carousel'.loadedImages
           /\ (last' = "reloaded" =>
                 /\ ReactState(carousel') = ReactState(carousel)
                 /\ carousel'.timers = carousel.timers) ]_vars

C17_Witness ==
    /\ last = "reloaded"
    /\ Cardinality(carousel.loadedImages) = 2

\* C18: a preload that fails (its URL leaves the loads in flight without
\* entering loadedImages) changes no state of the carousel and no timer, and
\* as long as the URL of the pending index is the failed one and is not in
\* loadedImages, no step that keeps the selected variant changes displayIndex.
C18_FailedPreloadIgnored ==
    [][ /\ ( (\E url \in carousel.preloads \ carousel'.preloads :
                 url \notin carousel'.loadedImages)
              => /\ ReactState(carousel') = ReactState(carousel)
                 /\ carousel'.timers = carousel.timers
                 /\ failed' # NULL )
        /\ ( ( /\ variantImage' = variantImage
                /\ failed' # NULL
                /\ PendingUrl(carousel, images) = failed'
                /\ failed'[1] \notin carousel'.loadedImages )
              => carousel'.displayIndex = carousel.displayIndex ) ]_vars

C18_Witness ==
    /\ failed # NULL
    /\ PendingUrl(carousel, images) = failed
    /\ carousel.displayIndex # carousel.activeIndex
    /\ carousel.preloads = {}
    /\ ~HasTimer(carousel, "sweep")

\* C20 (as stated): once the preload of a URL has failed, no preload of that
\* URL is in flight again unless switchTo is called for it or the image list
\* changes.
C20_NoRetry == failed # NULL => failed[1] \notin carousel.preloads

\* C20 (amended): once the preload of a URL has failed, another preload of it
\* is started, short of a switchTo call for it or a change of the image list,
\* only by the callback of the background sweep timer.
C20_RetryBySweepOnly ==
    [][ ( /\ failed # NULL
          /\ failed' = failed
          /\ failed[1] \notin carousel.preloads
          /\ failed[1] \in carousel'.preloads )
        => FireSweep ]_vars

C20_Witness ==
    /\ failed # NULL
    /\ failed[1] \in carousel.preloads
    /\ failed[1] \notin carousel.loadedImages
    /\ ~HasTimer(carousel, "sweep")

----------------------------------------------------------------------------
(* Properties of the move into a previous chunk *)

\* C19: the cross-chunk previous link carries page = PAGES_PER_CHUNK; the
\* render that follows it clamps currentPage to the fetched chunk's
\* totalPages and shows that chunk's last page, which is not empty and ends
\* with the item before the chunk that was left.
C19_PreviousChunkLastPage ==
    [][ (last' = "previous" /\ view.currentPage = 1) =>
          /\ search'.page = Some(<<"4">>)
          /\ view'.currentPage = Min(4, view'.totalPages)
          /\ view'.currentPage = view'.totalPages
          /\ view'.visibleNodes # <<>>
          /\ view'.visibleNodes[Len(view'.visibleNodes)]
                = collection.pageInfo.startCursor[1] - 1
          /\ view'.visibleNodes[Len(view'.visibleNodes)]
                = collection'.nodes[Len(collection'.nodes)] ]_vars

C19_Witness ==
    /\ last = "previous"
    /\ search.page = Some(<<"4">>)
    /\ search.direction = Some("previous")
    /\ Len(collection.nodes) = 1
    /\ view.totalPages = 1
    /\ view.currentPage = 1
    /\ view.visibleNodes = <<1>>

----------------------------------------------------------------------------
(* Properties of the transition effect *)

\* C21: the transition effect evaluated with pendingIndex equal to
\* displayIndex clears pendingIndex and does nothing else; a switchTo call for
\* the image on display therefore ends with pendingIndex null, displayIndex and
\* phase as they were and no fade-out timer.
C21_PendingOnDisplayCleared ==
    /\ LET snap == [carousel EXCEPT !.pendingIndex = Some(carousel.displayIndex)]
       IN  transitionEffect(snap, snap, images)
             = [snap EXCEPT !.pendingIndex = NULL]
    /\ \A index \in Clickable(carousel, images) :
          (index # carousel.activeIndex /\ index = carousel.displayIndex) =>
              LET s     == switchTo(carousel, images, index)
                  after == render(carousel, s, images, variantImage)
              IN  /\ after.pendingIndex = NULL
                  /\ after.activeIndex = index
                  /\ after.displayIndex = carousel.displayIndex
                  /\ after.phase = carousel.phase
                  /\ after.timers = clearTimeout(carousel, "fadeOut").timers

C21_Witness ==
    /\ variantImage = NULL
    /\ carousel.phase = "fade-out"
    /\ carousel.pendingIndex = NULL
    /\ carousel.activeIndex = carousel.displayIndex
    /\ ~HasTimer(carousel, "fadeOut")
    /\ ~HasTimer(carousel, "fadeIn")

\* C22: the completion of a preload of a URL that is not the pending target's
\* adds that URL to loadedImages and changes neither activeIndex nor
\* pendingIndex nor displayIndex; displayIndex is moved, short of new props,
\* to the index that was pending and to no other.
C22_SupersededPreloadHarmless ==
    [][ /\ (\A url \in carousel'.loadedImages \ carousel.loadedImages :
              (carousel.pendingIndex # NULL
                 /\ PendingUrl(carousel, images) # Some(url)) =>
                  /\ carousel'.loadedImages = carousel.loadedImages \cup {url}
                  /\ carousel'.activeIndex = carousel.activeIndex
                  /\ carousel'.pendingIndex = carousel.pendingIndex
                  /\ carousel'.displayIndex = carousel.displayIndex)
        /\ ( ( /\ carousel'.displayIndex # carousel.displayIndex
                /\ variantImage' = variantImage
                /\ ~Revalidate )
              => carousel.pendingIndex = Some(carousel'.displayIndex) ) ]_vars

C22_Witness ==
    /\ Len(images) = 3
    /\ carousel.displayIndex = 0
    /\ carousel.activeIndex = 2
    /\ carousel.pendingIndex = Some(2)
    /\ carousel.loadedImages = {targetUrl(images[2])}
    /\ carousel.preloads = {targetUrl(images[3])}
    /\ ~carousel.loadThumbnails

----------------------------------------------------------------------------
(* Properties of the image list *)

\* the ids of a list of images, in order
IdsOf(imgs) == [i \in 1..Len(imgs) |-> imgs[i].id]

\* C24: the image list is the base list when the selected variant has no
\* image or its image id occurs in the base list, and otherwise the variant
\* image followed by the base list in order; the variant's image id occurs in
\* the list, at most one image is added and no id occurs twice.
C24_ImageListInjection ==
    /\ ( (variantImage = NULL
           \/ \E i \in 1..Len(baseImages) : baseImages[i].id = variantImage[1].id)
         => images = baseImages )
    /\ ( (variantImage # NULL
           /\ \A i \in 1..Len(baseImages) : baseImages[i].id # variantImage[1].id)
         => /\ Len(images) = Len(baseImages) + 1
            /\ images[1] = variantImage[1]
            /\ SubSeq(images, 2, Len(images)) = baseImages )
    /\ ( variantImage # NULL
         => \E i \in 1..Len(images) : images[i].id = variantImage[1].id )
    /\ Len(images) <= Len(baseImages) + 1
    /\ \A i, j \in 1..Len(images) :
          IdsOf(images)[i] = IdsOf(images)[j] => i = j

C24_Witness ==
    /\ Len(baseImages) = MaxBaseImages
    /\ variantImage # NULL
    /\ Len(images) = MaxBaseImages + 1
    /\ images[1] = variantImage[1]
    /\ carousel # NULL

\* the variant's image is in the base list and the list is the base list
C24_WitnessInBase ==
    /\ variantImage # NULL
    /\ Len(baseImages) = MaxBaseImages
    /\ images = baseImages
    /\ images[MaxBaseImages].id = variantImage[1].id

----------------------------------------------------------------------------
(* Rest states of the carousel *)

\* C28: in every reachable state where pendingIndex is null and no fade timer
\* is pending, phase is idle.
C28_RestsIdle ==
    ( /\ carousel.pendingIndex = NULL
      /\ ~HasTimer(carousel, "fadeOut")
      /\ ~HasTimer(carousel, "fadeIn") )
    => carousel.phase = "idle"

\* the 0-based indices of a list
IndicesOf(imgs) == 0..(Len(imgs) - 1)

\* C29: after a change of the image list, once the effects have run,
\* activeIndex and displayIndex are indices of the list when it is not empty,
\* and when the selected variant has an image both are its position, with
\* pendingIndex null and phase idle.
C29_IndicesValidAfterListChange ==
    [][ images' # images =>
          /\ ( Len(images') > 0 =>
                  /\ carousel'.activeIndex \in IndicesOf(images')
                  /\ carousel'.displayIndex \in IndicesOf(images') )
          /\ ( variantImage' # NULL =>
                  /\ carousel'.activeIndex
                        = findIndex(images', variantImage'[1].id)
                  /\ carousel'.displayIndex
                        = findIndex(images', variantImage'[1].id)
                  /\ carousel'.pendingIndex = NULL
                  /\ carousel'.phase = "idle" ) ]_vars

----------------------------------------------------------------------------
(* Switching between loaded images: the props stay as they are and the user
   clicks once every image of the list is loaded *)

\* every image of the list is in loadedImages
AllLoaded(c, imgs) ==
    \A i \in 1..Len(imgs) : targetUrl(imgs[i]) \in c.loadedImages

\* a click once every image is loaded
SwitchToLoaded ==
    /\ AllLoaded(carousel, images)
    /\ SwitchTo

NextSwitching ==
    \/ SwitchToLoaded
    \/ PreloadLoaded
    \/ MainImageLoaded
    \/ FireFadeOut
    \/ FireFadeIn
    \/ FireSweep
    \/ FireThumbnails

SpecSwitching == InitProduct /\ [][NextSwitching]_vars

\* C27: with every image loaded and switchTo called at arbitrary moments,
\* once no fade timer is pending displayIndex equals activeIndex.
C27_DisplayConverges ==
    ( /\ AllLoaded(carousel, images)
      /\ ~HasTimer(carousel, "fadeOut")
      /\ ~HasTimer(carousel, "fadeIn") )
    => carousel.displayIndex = carousel.activeIndex

----------------------------------------------------------------------------
(* The background sweep when every preload succeeds and the user leaves the
   carousel alone: the list changes with the variant, timers fire and loads
   complete *)

NextSweep ==
    \/ PreloadLoaded
    \/ MainImageLoaded
    \/ FireSweep
    \/ FireThumbnails
    \/ SelectVariant
    \/ Revalidate

SpecSweep ==
    /\ InitProduct
    /\ [][NextSweep]_vars
    /\ WF_vars(FireThumbnails)
    /\ WF_vars(FireSweep)
    /\ WF_vars(PreloadLoaded)

\* the sweep is armed: the list is not empty and some image is not loaded
SweepDue(c, imgs) == Len(imgs) > 0 /\ ~AllLoaded(c, imgs)

\* the URLs of the list that are not loaded
UnloadedUrls(c, imgs) ==
    {targetUrl(imgs[i]) : i \in 1..Len(imgs)} \ c.loadedImages

SweepTimers(c) == SelectSeq(c.timers, LAMBDA t : t.kind = "sweep")

\* the sweep timer is pending exactly when the effect found an unloaded image
\* and its callback preloads the unloaded images
SweepArmedWhenDue ==
    /\ (HasTimer(carousel, "sweep") <=> SweepDue(carousel, images))
    /\ [](/\ Len(SweepTimers(carousel)) <= 1
          /\ HasTimer(carousel, "sweep") => SweepDue(carousel, images))
    /\ [][ /\ ( (carousel'.loadedImages # carousel.loadedImages
                   \/ images' # images)
                 => (HasTimer(carousel', "sweep")
                       <=> SweepDue(carousel', images')) )
           /\ ( ( /\ HasTimer(carousel, "sweep")
                   /\ ~HasTimer(carousel', "sweep")
                   /\ carousel'.loadedImages = carousel.loadedImages
                   /\ images' = images )
                 => carousel'.preloads
                      = carousel.preloads \cup UnloadedUrls(carousel, images) )
        ]_vars

\* C23: a sweep timer is pending after mount and after every change of the
\* image list or of the loaded set exactly when the list is not empty and
\* some image is not loaded, and never when every image is loaded; the timer's
\* callback starts a preload of every image that is not loaded and of no
\* other; when every preload succeeds, every image of the list is eventually
\* loaded.
C23_BackgroundSweep ==
    /\ SweepArmedWhenDue
    /\ []<>AllLoaded(carousel, images)

\* the sweep has fired and its preloads have loaded every image of a list
\* that holds the injected image
C23_Witness ==
    /\ Len(images) = MaxBaseImages + 1
    /\ AllLoaded(carousel, images)
    /\ carousel.activeIndex = 0
    /\ carousel.displayIndex = 0
    /\ carousel.pendingIndex = NULL
    /\ carousel.preloads = {}
    /\ ~HasTimer(carousel, "sweep")
    /\ last = "none"

----------------------------------------------------------------------------
(* Links inside a chunk *)

\* the step followed a link that stays inside the chunk: a page-number link,
\* or next before the last page, or previous after the first page
IntraChunkStep ==
    \/ last' = "page"
    \/ last' = "next" /\ view.currentPage < view.totalPages
    \/ last' = "previous" /\ view.currentPage > 1

\* C25: following a link inside the chunk keeps the chunk: the loader run for
\* the target URL fetches the same items as for the current URL, for every
\* current URL.
C25_IntraChunkKeepsChunk ==
    [][ IntraChunkStep => collection' = collection ]_vars

----------------------------------------------------------------------------
(* Forward traversal: the collection is entered without query parameters and
   the next link is followed as long as there is one *)

InitForward ==
    /\ catalogSize \in 0..MaxCatalog
    /\ search = [page |-> NULL, cursor |-> NULL, direction |-> NULL]
    /\ collection = loadCriticalData(catalogSize, search)
    /\ view = Collection(search, collection)
    /\ last = "typed"
    /\ ProductClosed

NextForward == FollowNext

SpecForward == InitForward /\ [][NextForward]_vars /\ WF_vars(FollowNext)

\* the items on the page are consecutive items of the dataset, in API order
VisibleConsecutive ==
    \A i \in 1..Len(view.visibleNodes) :
        view.visibleNodes[i] = view.visibleNodes[1] + i - 1

\* C26: from the URL without parameters, following next shows the items of the
\* dataset in API order, each once: the first page starts at item 1, each page
\* starts at the item after the last one of the page before, the page without
\* next target ends at the last item, and that page is reached.
C26_ForwardTraversalComplete ==
    /\ (catalogSize > 0 => view.visibleNodes[1] = 1)
    /\ [](/\ VisibleConsecutive
          /\ catalogSize > 0 => Len(view.visibleNodes) > 0
          /\ view.nextUrl = NULL =>
                IF catalogSize = 0 THEN view.visibleNodes = <<>>
                ELSE view.visibleNodes[Len(view.visibleNodes)] = catalogSize)
    /\ [][ view'.visibleNodes[1]
             = view.visibleNodes[Len(view.visibleNodes)] + 1 ]_vars
    /\ <>(view.nextUrl = NULL)

\* the last page of a third chunk, reached through two chunk boundaries
C26_Witness ==
    /\ catalogSize = 2 * PAGE_SIZE * PAGES_PER_CHUNK + 5
    /\ last = "next"
    /\ search.direction = Some("next")
    /\ search.cursor = Some(2 * PAGE_SIZE * PAGES_PER_CHUNK)
    /\ view.nextUrl = NULL
    /\ view.visibleNodes = [i \in 1..5 |-> 2 * PAGE_SIZE * PAGES_PER_CHUNK + i]

----------------------------------------------------------------------------
(* The recently viewed list: Product()'s last effect and localStorage *)

RECENTLY_VIEWED_MAX == 12

\* one more product than the list holds
MaxHandles == 13

\* product views followed from the store a visitor arrives with
MaxViews == 2

Handles == 1..MaxHandles

\* variantImage || images[0] || null of the product on view
CacheImages == {NULL, Some(Image(BaseImageIds[1]))}

\* the entry the effect builds; title, price and currency follow the handle
Entry(handle, imageForCache) ==
    [handle   |-> handle,
     imageUrl |-> IF imageForCache = NULL THEN NULL
                  ELSE Some(imageForCache[1].url)]

\* a text in localStorage: a JSON array of entries, another JSON value, a text
\* that is not JSON, or the empty string
JSONStringify(items) == [json |-> "array", items |-> items]

OtherJSON == [json |-> "other", items |-> <<>>]

NotJSON == [json |-> "none", items |-> <<>>]

EmptyText == [json |-> "empty", items |-> <<>>]

\* JSON.parse: NULL stands for the SyntaxError it throws
JSONParse(text) ==
    IF text.json \in {"none", "empty"} THEN NULL
    ELSE Some([isArray |-> text.json = "array", items |-> text.items])

\* mutant: the earlier entry of the product on view is kept
recentlyViewedEffect_NoFilter(store, shown, handle, imageForCache) ==
    LET raw    == IF store = NULL \/ store[1] = EmptyText
                  THEN JSONStringify(<<>>) ELSE store[1]
        parsed == JSONParse(raw)
    IN  IF parsed = NULL
        THEN [stored |-> store, recentlyViewed |-> shown]
        ELSE LET filtered == IF parsed[1].isArray THEN parsed[1].items ELSE <<>>
                 next == Slice(<<Entry(handle, imageForCache)>> \o filtered,
                               0, RECENTLY_VIEWED_MAX)
             IN  [stored |-> Some(JSONStringify(next)),
                  recentlyViewed |->
                      SelectSeq(next, LAMBDA item : item.handle # handle)]

\* mutant: the list is stored whole
recentlyViewedEffect_NoSlice(store, shown, handle, imageForCache) ==
    LET raw    == IF store = NULL \/ store[1] = EmptyText
                  THEN JSONStringify(<<>>) ELSE store[1]
        parsed == JSONParse(raw)
    IN  IF parsed = NULL
        THEN [stored |-> store, recentlyViewed |-> shown]
        ELSE LET filtered ==
                     IF parsed[1].isArray
                     THEN SelectSeq(parsed[1].items,
                                    LAMBDA item : item.handle # handle)
                     ELSE <<>>
                 next == <<Entry(handle, imageForCache)>> \o filtered
             IN  [stored |-> Some(JSONStringify(next)),
                  recentlyViewed |->
                      SelectSeq(next, LAMBDA item : item.handle # handle)]

\* the recently viewed effect: the store and the state it leaves
recentlyViewedEffect(store, shown, handle, imageForCache) ==
    LET raw    == IF store = NULL \/ store[1] = EmptyText
                  THEN JSONStringify(<<>>) ELSE store[1]
        parsed == JSONParse(raw)
    IN  IF parsed = NULL
        THEN [stored |-> store, recentlyViewed |-> shown]
        ELSE LET filtered ==
                     IF parsed[1].isArray
                     THEN SelectSeq(parsed[1].items,
                                    LAMBDA item : item.handle # handle)
                     ELSE <<>>
                 next == Slice(<<Entry(handle, imageForCache)>> \o filtered,
                               0, RECENTLY_VIEWED_MAX)
             IN  [stored |-> Some(JSONStringify(next)),
                  recentlyViewed |->
                      SelectSeq(next, LAMBDA item : item.handle # handle)]

\* the store after the products 1..n were viewed in turn from an empty store
RECURSIVE StoreAfter(_)
StoreAfter(n) ==
    IF n = 0 THEN NULL
    ELSE recentlyViewedEffect(StoreAfter(n - 1), <<>>, n, NULL).stored

\* the stores a visitor arrives with: no value, values this effect never
\* wrote, and the lists of earlier visits
InitialStores ==
    {Some(EmptyText), Some(NotJSON), Some(OtherJSON)}
        \cup {StoreAfter(n) : n \in 0..RECENTLY_VIEWED_MAX}

InitRecent ==
    /\ stored \in InitialStores
    /\ recentlyViewed = <<>>
    /\ product = NULL
    /\ views = 0
    /\ last = "none"
    /\ CollectionClosed
    /\ baseImages = <<>>
    /\ variantImage = NULL
    /\ images = <<>>
    /\ carousel = NULL
    /\ firstShown = TRUE
    /\ following = FALSE
    /\ failed = NULL

\* a product page is viewed, or the variant of the product on view changes:
\* the effect runs
ViewProduct ==
    \E handle \in Handles, imageForCache \in CacheImages :
        /\ views < MaxViews
        /\ product # Some(Entry(handle, imageForCache))
        /\ LET after == recentlyViewedEffect(stored, recentlyViewed,
                                             handle, imageForCache)
           IN  /\ stored' = after.stored
               /\ recentlyViewed' = after.recentlyViewed
        /\ product' = Some(Entry(handle, imageForCache))
        /\ views' = views + 1
        /\ UNCHANGED <<collectionVars, productVars, last>>

NextRecent == ViewProduct

SpecRecent == InitRecent /\ [][NextRecent]_vars

\* the handles of a list of entries, in order
HandlesOf(items) == [i \in 1..Len(items) |-> items[i].handle]

\* a list without the entries of a handle
Without(items, handle) == SelectSeq(items, LAMBDA item : item.handle # handle)

\* the list a store holds: none for a missing or empty value and for a JSON
\* value that is not an array
ListOf(store) ==
    IF store # NULL /\ store[1].json = "array" THEN store[1].items ELSE <<>>

====
